---- MODULE Spec2Model ----
(***************************************************************************)
(* Account registration and activation workflow of user-registration.      *)
(*                                                                         *)
(* Each repository call is an independent, auto-committed transaction     *)
(* (postgres_account_repository.py:68-71), so a command handler is a       *)
(* sequence of atomic steps, one per repository / collaborator call, and   *)
(* handlers of concurrent requests interleave between these steps.         *)
(***************************************************************************)
EXTENDS Integers, Sequences, FiniteSets, TLC

\* ------------------------------------------------------------------ bounds
MaxAccounts == 2        \* ids AccountId.generate() may hand out
MaxTime == 61           \* the clock stops here (seconds)
MaxFailedCount == 2     \* failed activation attempts are counted up to here
NumWorkers == 2         \* concurrent requests being served
MaxRegistered == 3      \* register() calls made on the dispatcher
MaxDispatched == 2      \* events passed to dispatch()
MaxCodeLen == 5         \* length of the strings handed to ActivationCode

EXPIRATION_SECONDS == 60
CODE_LENGTH == 4

Ids == 1..MaxAccounts
Workers == 1..NumWorkers
\* The instants at which the clock is observed (seconds): the start, and the
\* last two, which lie at and after the end of the validity window of a code
\* created at the start.
SampleTimes == {0, MaxTime - 1, MaxTime}
\* Requests are served one at a time by this worker in Spec.
SerialWorkers == {1}

\* ----------------------------------------------------------------- inputs
\* Raw addresses a client may send (all accepted by email_validator); the
\* first two differ only in letter case.
RawEmails == { <<"U", "@", "x">>, <<"u", "@", "x">>, <<"v", "@", "x">> }
\* Password value objects (bcrypt hashes) a request may carry.
Passwords == {"hashA"}
\* Numbers random.randint(0, 9999) may return in ActivationCode.generate().
GenNumbers == {7, 1234}
\* Codes a client may send to the activation endpoint (already valid
\* ActivationCode values).
InputCodes == { <<"0", "0", "0", "7">>, <<"1", "2", "3", "4">>, <<"9", "9", "9", "9">> }

\* Characters a string handed to ActivationCode may hold: two ASCII digits,
\* a letter, and FULLWIDTH DIGIT ONE (U+FF11), a decimal digit that is not
\* ASCII, written here by its name.
CodeChars == {"0", "9", "a", "fullwidth1"}
\* The strings of at most MaxCodeLen such characters.
CodeStrings == UNION { [1..k -> CodeChars] : k \in 0..MaxCodeLen }
\* Numbers random.randint(0, 9999) may return, with both ends of the range.
GenNumbersEdge == GenNumbers \cup {0, 9999}

\* Event classes and handler classes known to the dispatcher's clients:
\* AccountCreated / AccountCreatedHandler, and a second event class with two
\* recording handlers.
EventTypes == {"AccountCreated", "TestEvent"}
RecordingHandlers == {"TestEventHandler", "OtherEventHandler"}
\* Events of the second class that a client may dispatch.
TestEvents == { [type |-> "TestEvent", message |-> m] : m \in {"first", "second"} }

VARIABLES
    accounts,      \* table account: id -> row
    activations,   \* table account_activation: account_id -> row
    now,           \* datetime.now(UTC), in seconds
    handlers,      \* InMemoryEventDispatcher._handlers
    issued,        \* number of ids AccountId.generate() has returned
    events,        \* every event passed to dispatch(), in order
    outbox,        \* every message the email service has sent, in order
    pc,            \* per request: position in its handler
    cmd,           \* per request: the command being handled
    local,         \* per request: the handler's local variables
    result,        \* per request: how the handler ended
    calls,         \* per request: collaborator calls made so far, in order
    pre,           \* per request: the stores as they were when handle() was called
    failed_attempts, \* the account id of the latest call that ended InvalidActivationCode,
                   \* and how many such calls in a row that id has had
    replaced,      \* per account id: the code the latest activation save overwrote, if any
    delivered,     \* every handler invocation the dispatcher made, in order
    registered     \* every register() call made on the dispatcher, in order

vars == <<accounts, activations, now, handlers, issued, events, outbox,
          pc, cmd, local, result, calls, pre, failed_attempts, replaced, delivered, registered>>

\* ----------------------------------------------------------- value objects
LowerChar(c) ==
    CASE c = "U" -> "u"
      [] c = "V" -> "v"
      [] c = "X" -> "x"
      [] OTHER -> c

\* Mutant of Email: the value is stored as typed, without lower-casing.
Email_noLower(value) == value

\* Email.__post_init__: the stored value is validated.normalized.lower().
Email(value) == [i \in DOMAIN value |-> LowerChar(value[i])]

Digit(d) == <<"0", "1", "2", "3", "4", "5", "6", "7", "8", "9">>[d + 1]

RECURSIVE Str(_)
\* str(n) for n >= 0
Str(n) == IF n < 10 THEN <<Digit(n)>> ELSE Append(Str(n \div 10), Digit(n % 10))

RECURSIVE zfill(_, _)
\* str.zfill(width)
zfill(s, width) == IF Len(s) >= width THEN s ELSE zfill(<<"0">> \o s, width)

\* ActivationCode.generate(), random_number being what random.randint returned.
ActivationCode_generate(random_number) == zfill(Str(random_number), CODE_LENGTH)

AsciiDigits == { Digit(d) : d \in 0..9 }
\* Characters of Unicode category Nd / digit, which str.isdigit() accepts.
UnicodeDigits == AsciiDigits \cup {"fullwidth1"}

\* str.isdigit(): non-empty and every character is a Unicode digit.
str_isdigit(s) == Len(s) > 0 /\ \A i \in DOMAIN s : s[i] \in UnicodeDigits

\* ActivationCode.__post_init__ on a string: the length, then isdigit().
ActivationCode_post_init(code) ==
    IF Len(code) # CODE_LENGTH THEN "ValueError"
    ELSE IF ~str_isdigit(code) THEN "ValueError"
    ELSE "ok"

\* -------------------------------------------------------------- entities
\* Mutant of Account_create: the new account starts activated.
Account_create_activated(email, password, new_id) ==
    [id |-> new_id, email |-> email, password |-> password, is_activated |-> TRUE]

\* Account.create, new_id being what AccountId.generate() returned.
Account_create(email, password, new_id) ==
    [id |-> new_id, email |-> email, password |-> password, is_activated |-> FALSE]

\* Mutant of Account_activate: the flag is flipped instead of set.
Account_activate_toggle(account) == [account EXCEPT !.is_activated = ~@]

\* Mutant of Account_activate: the flag is not set.
Account_activate_noop(account) == account

\* Account.activate
Account_activate(account) == [account EXCEPT !.is_activated = TRUE]

\* AccountActivation.create_for_account, with the generated code and the
\* value datetime.now(UTC) returned.
AccountActivation_create_for_account(account_id, code, t) ==
    [account_id |-> account_id, code |-> code,
     created_at |-> t, expires_at |-> t + EXPIRATION_SECONDS]

\* Mutant of AccountActivation_is_expired: no activation ever expires.
AccountActivation_is_expired_never(activation, t) == FALSE

\* Mutant of AccountActivation_is_expired: the last instant is excluded.
AccountActivation_is_expired_inclusive(activation, t) == t >= activation.expires_at

\* AccountActivation.is_expired, t being datetime.now(UTC).
AccountActivation_is_expired(activation, t) == t > activation.expires_at

\* AccountCreated(account_id, email, occurred_at)
AccountCreated(account_id, email, t) ==
    [type |-> "AccountCreated", account_id |-> account_id, email |-> email,
     occurred_at |-> t]

\* ---------------------------------------------------------------- mappers
\* account_mapper.to_persistence (created_at / updated_at are audit columns
\* set by the database and read by nothing; they are left out).
account_to_persistence(account) ==
    [id |-> account.id, email |-> account.email,
     password_hash |-> account.password, is_activated |-> account.is_activated]

\* account_mapper.to_domain
account_to_domain(row) ==
    [id |-> row.id, email |-> Email(row.email), password |-> row.password_hash,
     is_activated |-> row.is_activated]

\* account_activation_mapper.to_persistence
activation_to_persistence(activation) ==
    [account_id |-> activation.account_id, code |-> activation.code,
     created_at |-> activation.created_at, expires_at |-> activation.expires_at]

\* account_activation_mapper.to_domain
activation_to_domain(row) ==
    [account_id |-> row.account_id, code |-> row.code,
     created_at |-> row.created_at, expires_at |-> row.expires_at]

\* ----------------------------------------------------------- repositories
\* An optional value (X | None) is a set with at most one element.

\* PostgresAccountRepository.find_by_email: SELECT ... WHERE email = %s
find_by_email(email) ==
    { account_to_domain(accounts[i]) : i \in { j \in DOMAIN accounts : accounts[j].email = email } }

\* AccountRepository.find_by_id: the account with this id, if any.
find_by_id(account_id) ==
    { account_to_domain(accounts[i]) : i \in { j \in DOMAIN accounts : accounts[j].id = account_id } }

\* Mutant of EmailConflict: the table has no UNIQUE constraint on email.
EmailConflict_none(row) == FALSE

\* The UNIQUE constraint on account.email: the row would give an email that
\* another id already holds.
EmailConflict(row) ==
    \E i \in DOMAIN accounts : i # row.id /\ accounts[i].email = row.email

\* INSERT ... ON CONFLICT (id) DO UPDATE SET email, password_hash, is_activated
AccountUpsert(row) ==
    [i \in DOMAIN accounts \cup {row.id} |-> IF i = row.id THEN row ELSE accounts[i]]

\* PostgresAccountActivationRepository.find_by_account_id
find_by_account_id(account_id) ==
    { activation_to_domain(activations[i]) :
        i \in { j \in DOMAIN activations : activations[j].account_id = account_id } }

\* Mutant of ActivationUpsert: ON CONFLICT (account_id) DO NOTHING.
ActivationUpsert_keepFirst(row) ==
    [i \in DOMAIN activations \cup {row.account_id} |->
        IF i \in DOMAIN activations THEN activations[i] ELSE row]

\* INSERT ... ON CONFLICT (account_id) DO UPDATE SET code, created_at, expires_at
ActivationUpsert(row) ==
    [i \in DOMAIN activations \cup {row.account_id} |->
        IF i = row.account_id THEN row ELSE activations[i]]

\* The one element of an optional value that is not None.
The(option) == CHOOSE x \in option : TRUE

\* The code an activation save for this row overwrites, if it overwrites one.
Overwritten(row) ==
    IF row.account_id \in DOMAIN activations
    THEN {activations[row.account_id].code} ELSE {}

\* --------------------------------------------------------------- dispatcher
\* Mutant of InMemoryEventDispatcher_register: a type keeps its first handler.
InMemoryEventDispatcher_register_keepFirst(event_type, handler_type) ==
    [t \in DOMAIN handlers \cup {event_type} |->
        IF t \in DOMAIN handlers THEN handlers[t] ELSE handler_type]

\* InMemoryEventDispatcher.register: self._handlers[event_type] = handler_type
InMemoryEventDispatcher_register(event_type, handler_type) ==
    [t \in DOMAIN handlers \cup {event_type} |->
        IF t = event_type THEN handler_type ELSE handlers[t]]

\* dispatch, line 117: self._handlers.get(type(event))
HandlerFor(event) ==
    IF event.type \in DOMAIN handlers THEN {handlers[event.type]} ELSE {}

\* dispatch, lines 118-120: the handler, if there is one, is resolved and its
\* handle(event) is called; `seq` is the position of the event among all
\* the events dispatched.
Deliver(handler_type, event) ==
    IF handler_type = {}
    THEN delivered
    ELSE Append(delivered, [handler |-> The(handler_type), event |-> event,
                            seq |-> Len(events) + 1])

\* ------------------------------------------------------------ request state
NoCmd == [op |-> "none", raw_email |-> <<>>, email |-> <<>>, password |-> "",
          account_id |-> 0, code |-> <<>>]
NoLocal == [loaded |-> {}, account |-> {}, activation |-> {}, event |-> {},
            checked_at |-> 0, error_email |-> <<>>]
NoPre == [accounts |-> <<>>, activations |-> <<>>, events |-> <<>>, outbox |-> <<>>,
          now |-> 0, handlers |-> <<>>, delivered |-> <<>>, registered |-> <<>>]
\* What is persisted, dispatched and sent at this moment.
Snapshot == [accounts |-> accounts, activations |-> activations, events |-> events,
             outbox |-> outbox, now |-> now, handlers |-> handlers,
             delivered |-> delivered, registered |-> registered]

Call(name, arg) == [op |-> name, arg |-> arg]

\* The handler of request w raised `error` (or returned, "ok").
Finish(w, outcome) ==
    /\ pc' = [pc EXCEPT ![w] = "done"]
    /\ result' = [result EXCEPT ![w] = outcome]

Goto(w, label) ==
    /\ pc' = [pc EXCEPT ![w] = label]
    /\ UNCHANGED result

Did(w, name, arg) == calls' = [calls EXCEPT ![w] = Append(@, Call(name, arg))]

\* -------------------------------------------------------------------- Init
\* main.py: empty database, AccountCreatedHandler registered for AccountCreated.
Init ==
    /\ accounts = <<>>
    /\ activations = <<>>
    /\ now = 0
    /\ handlers = [AccountCreated |-> "AccountCreatedHandler"]
    /\ issued = 0
    /\ events = <<>>
    /\ outbox = <<>>
    /\ pc = [w \in Workers |-> "idle"]
    /\ cmd = [w \in Workers |-> NoCmd]
    /\ local = [w \in Workers |-> NoLocal]
    /\ result = [w \in Workers |-> "none"]
    /\ calls = [w \in Workers |-> <<>>]
    /\ pre = [w \in Workers |-> NoPre]
    /\ failed_attempts = [account_id |-> 0, count |-> 0]
    /\ replaced = [i \in Ids |-> {}]
    /\ delivered = <<>>
    /\ registered = <<[event_type |-> "AccountCreated", handler_type |-> "AccountCreatedHandler"]>>

\* ------------------------------------------------- ActivateAccountHandler
\* A client posts (account_id, code) to the activation endpoint.
ActivateCall(w) ==
    /\ pc[w] = "idle"
    /\ \E id \in Ids, code \in InputCodes :
        /\ cmd' = [cmd EXCEPT ![w] = [NoCmd EXCEPT !.op = "activate",
                                                   !.account_id = id, !.code = code]]
        /\ pre' = [pre EXCEPT ![w] = Snapshot]
    /\ pc' = [pc EXCEPT ![w] = "act_find_account"]
    /\ UNCHANGED <<accounts, activations, now, handlers, issued, events, outbox,
                   local, result, calls, failed_attempts, replaced, delivered, registered>>

\* Mutant of ActFindAccount: the missing account is not noticed before the
\* activation is looked up.
ActFindAccount_noCheck(w) ==
    /\ pc[w] = "act_find_account"
    /\ LET account == find_by_id(cmd[w].account_id) IN
        /\ Did(w, "account.find_by_id", cmd[w].account_id)
        /\ local' = [local EXCEPT ![w].account = account, ![w].loaded = account]
        /\ Goto(w, "act_find_activation")
    /\ UNCHANGED <<accounts, activations, now, handlers, issued, events, outbox, cmd, pre, failed_attempts, replaced, delivered, registered>>

\* handle, lines 177-179: load the account, AccountNotFoundError if there is none.
ActFindAccount(w) ==
    /\ pc[w] = "act_find_account"
    /\ LET account == find_by_id(cmd[w].account_id) IN
        /\ Did(w, "account.find_by_id", cmd[w].account_id)
        /\ IF account = {}
           THEN Finish(w, "AccountNotFound") /\ UNCHANGED local
           ELSE /\ local' = [local EXCEPT ![w].account = account, ![w].loaded = account]
                /\ Goto(w, "act_find_activation")
    /\ UNCHANGED <<accounts, activations, now, handlers, issued, events, outbox, cmd, pre, failed_attempts, replaced, delivered, registered>>

\* Mutant of ActFindActivation: a missing activation is reported as a wrong code.
ActFindActivation_wrongError(w) ==
    /\ pc[w] = "act_find_activation"
    /\ LET activation == find_by_account_id(cmd[w].account_id) IN
        /\ Did(w, "activation.find_by_account_id", cmd[w].account_id)
        /\ IF activation = {}
           THEN Finish(w, "InvalidActivationCode") /\ UNCHANGED local
           ELSE /\ local' = [local EXCEPT ![w].activation = activation]
                /\ Goto(w, "act_validate")
    /\ UNCHANGED <<accounts, activations, now, handlers, issued, events, outbox, cmd, pre, failed_attempts, replaced, delivered, registered>>

\* handle, lines 181-185: load the activation, ActivationCodeNotFoundError if none.
ActFindActivation(w) ==
    /\ pc[w] = "act_find_activation"
    /\ LET activation == find_by_account_id(cmd[w].account_id) IN
        /\ Did(w, "activation.find_by_account_id", cmd[w].account_id)
        /\ IF activation = {}
           THEN Finish(w, "ActivationCodeNotFound") /\ UNCHANGED local
           ELSE /\ local' = [local EXCEPT ![w].activation = activation]
                /\ Goto(w, "act_validate")
    /\ UNCHANGED <<accounts, activations, now, handlers, issued, events, outbox, cmd, pre, failed_attempts, replaced, delivered, registered>>

\* Mutant of ValidateActivation: the code's value is compared before expiry.
ValidateActivation_valueFirst(activation, code, t) ==
    IF activation.code # code THEN "InvalidActivationCode"
    ELSE IF AccountActivation_is_expired(activation, t) THEN "ActivationCodeExpired"
    ELSE "ok"

\* Mutant of ValidateActivation: the code's value is not compared.
ValidateActivation_noValueCheck(activation, code, t) ==
    IF AccountActivation_is_expired(activation, t) THEN "ActivationCodeExpired"
    ELSE "ok"

\* handle, lines 187-191: expiry first, then the code's value.
ValidateActivation(activation, code, t) ==
    IF AccountActivation_is_expired(activation, t) THEN "ActivationCodeExpired"
    ELSE IF activation.code # code THEN "InvalidActivationCode"
    ELSE "ok"

\* Mutant of ActValidate: the account is activated and persisted before the
\* activation is validated.
ActValidate_saveFirst(w) ==
    /\ pc[w] = "act_validate"
    /\ LET outcome == ValidateActivation(The(local[w].activation), cmd[w].code, now)
           account == Account_activate(The(local[w].account)) IN
        /\ accounts' = AccountUpsert(account_to_persistence(account))
        /\ Did(w, "account.save", account)
        /\ local' = [local EXCEPT ![w].account = {account}, ![w].checked_at = now]
        /\ Finish(w, outcome)
    /\ UNCHANGED <<activations, now, handlers, issued, events, outbox, cmd, pre, failed_attempts, replaced, delivered, registered>>

\* Mutant of ActValidate: an account that is already activated is answered
\* without its activation being validated.
ActValidate_skipIfActivated(w) ==
    /\ pc[w] = "act_validate"
    /\ LET outcome == IF The(local[w].account).is_activated THEN "ok"
                      ELSE ValidateActivation(The(local[w].activation), cmd[w].code, now) IN
        /\ UNCHANGED failed_attempts
        /\ IF outcome # "ok"
           THEN /\ Finish(w, outcome)
                /\ local' = [local EXCEPT ![w].checked_at = now]
           ELSE /\ local' = [local EXCEPT ![w].account = {Account_activate(The(@))},
                                          ![w].checked_at = now]
                /\ Goto(w, "act_save")
    /\ UNCHANGED <<accounts, activations, now, handlers, issued, events, outbox, cmd, calls, pre,
                   replaced, delivered, registered>>

\* Mutant of ActValidate: account.activate() raises ValueError when the
\* account is already activated.
ActValidate_raisesIfActivated(w) ==
    /\ pc[w] = "act_validate"
    /\ LET outcome == ValidateActivation(The(local[w].activation), cmd[w].code, now) IN
        /\ UNCHANGED failed_attempts
        /\ IF outcome # "ok"
           THEN /\ Finish(w, outcome)
                /\ local' = [local EXCEPT ![w].checked_at = now]
           ELSE IF The(local[w].account).is_activated
           THEN /\ Finish(w, "ValueError")
                /\ local' = [local EXCEPT ![w].checked_at = now]
           ELSE /\ local' = [local EXCEPT ![w].account = {Account_activate(The(@))},
                                          ![w].checked_at = now]
                /\ Goto(w, "act_save")
    /\ UNCHANGED <<accounts, activations, now, handlers, issued, events, outbox, cmd, calls, pre,
                   replaced, delivered, registered>>

\* handle, lines 187-193: validate, then account.activate().  local[w].checked_at
\* keeps the time is_expired() read.
ActValidate(w) ==
    /\ pc[w] = "act_validate"
    /\ LET outcome == ValidateActivation(The(local[w].activation), cmd[w].code, now) IN
        /\ failed_attempts' =
              IF outcome = "InvalidActivationCode"
              THEN [account_id |-> cmd[w].account_id,
                    count |-> IF failed_attempts.account_id # cmd[w].account_id THEN 1
                              ELSE IF failed_attempts.count < MaxFailedCount
                              THEN failed_attempts.count + 1
                              ELSE failed_attempts.count]
              ELSE failed_attempts
        /\ IF outcome # "ok"
           THEN /\ Finish(w, outcome)
                /\ local' = [local EXCEPT ![w].checked_at = now]
           ELSE /\ local' = [local EXCEPT ![w].account = {Account_activate(The(@))},
                                          ![w].checked_at = now]
                /\ Goto(w, "act_save")
    /\ UNCHANGED <<accounts, activations, now, handlers, issued, events, outbox, cmd, calls, pre,
                   replaced, delivered, registered>>

\* Mutant of ActSave: the activated account is not persisted.
ActSave_noPersist(w) ==
    /\ pc[w] = "act_save"
    /\ Finish(w, "ok")
    /\ UNCHANGED <<accounts, activations, now, handlers, issued, events, outbox, cmd, local,
                   pre, calls, failed_attempts, replaced, delivered, registered>>

\* Mutant of ActSave: a successful activation consumes the code: the
\* activation row is deleted with the save.
ActSave_consumeCode(w) ==
    /\ pc[w] = "act_save"
    /\ LET account == The(local[w].account)
           row == account_to_persistence(account) IN
        /\ Did(w, "account.save", account)
        /\ IF EmailConflict(row)
           THEN Finish(w, "IntegrityError") /\ UNCHANGED <<accounts, activations>>
           ELSE /\ accounts' = AccountUpsert(row)
                /\ activations' = [i \in DOMAIN activations \ {account.id} |-> activations[i]]
                /\ Finish(w, "ok")
    /\ UNCHANGED <<now, handlers, issued, events, outbox, cmd, local, pre, failed_attempts, replaced, delivered, registered>>

\* handle, line 195: persist the account.
ActSave(w) ==
    /\ pc[w] = "act_save"
    /\ LET account == The(local[w].account)
           row == account_to_persistence(account) IN
        /\ Did(w, "account.save", account)
        /\ IF EmailConflict(row)
           THEN Finish(w, "IntegrityError") /\ UNCHANGED accounts
           ELSE accounts' = AccountUpsert(row) /\ Finish(w, "ok")
    /\ UNCHANGED <<activations, now, handlers, issued, events, outbox, cmd, local, pre, failed_attempts, replaced, delivered, registered>>

\* ------------------------------------------------- RegisterAccountHandler
\* A client posts (email, password); the controller builds the value objects
\* (account_controller.py:110-114) and calls handle.
RegisterCall(w) ==
    /\ pc[w] = "idle"
    /\ \E raw \in RawEmails, password \in Passwords :
        /\ cmd' = [cmd EXCEPT ![w] = [NoCmd EXCEPT !.op = "register",
                                                   !.raw_email = raw,
                                                   !.email = Email(raw),
                                                   !.password = password]]
        /\ pre' = [pre EXCEPT ![w] = Snapshot]
    /\ pc' = [pc EXCEPT ![w] = "reg_find"]
    /\ UNCHANGED <<accounts, activations, now, handlers, issued, events, outbox,
                   local, result, calls, failed_attempts, replaced, delivered, registered>>

\* Mutant of RegFindByEmail: the result of the uniqueness check is ignored.
RegFindByEmail_noCheck(w) ==
    /\ pc[w] = "reg_find"
    /\ Did(w, "account.find_by_email", cmd[w].email)
    /\ issued < MaxAccounts
    /\ issued' = issued + 1
    /\ local' = [local EXCEPT ![w].account =
                    {Account_create(cmd[w].email, cmd[w].password, issued + 1)}]
    /\ Goto(w, "reg_save")
    /\ UNCHANGED <<accounts, activations, now, handlers, events, outbox, cmd, pre, failed_attempts, replaced, delivered, registered>>

\* Mutant of RegFindByEmail: the new account is given the first id again
\* instead of a fresh one.
RegFindByEmail_reusedId(w) ==
    /\ pc[w] = "reg_find"
    /\ LET existing_account == find_by_email(cmd[w].email) IN
        /\ Did(w, "account.find_by_email", cmd[w].email)
        /\ IF existing_account # {}
           THEN /\ Finish(w, "EmailAlreadyExists")
                /\ local' = [local EXCEPT ![w].error_email = cmd[w].email]
                /\ UNCHANGED issued
           ELSE /\ issued < MaxAccounts
                /\ issued' = issued + 1
                /\ local' = [local EXCEPT ![w].account =
                                {Account_create(cmd[w].email, cmd[w].password, 1)}]
                /\ Goto(w, "reg_save")
    /\ UNCHANGED <<accounts, activations, now, handlers, events, outbox, cmd, pre, failed_attempts, replaced, delivered, registered>>

\* Mutant of RegFindByEmail: registering an email that is already persisted
\* dispatches AccountCreated again for the existing account, which gives it
\* a new code.
RegFindByEmail_resend(w) ==
    /\ pc[w] = "reg_find"
    /\ LET existing_account == find_by_email(cmd[w].email) IN
        /\ Did(w, "account.find_by_email", cmd[w].email)
        /\ IF existing_account # {}
           THEN /\ local' = [local EXCEPT ![w].account = existing_account]
                /\ Goto(w, "reg_dispatch")
                /\ UNCHANGED issued
           ELSE /\ issued < MaxAccounts
                /\ issued' = issued + 1
                /\ local' = [local EXCEPT ![w].account =
                                {Account_create(cmd[w].email, cmd[w].password, issued + 1)}]
                /\ Goto(w, "reg_save")
    /\ UNCHANGED <<accounts, activations, now, handlers, events, outbox, cmd, pre, failed_attempts, replaced, delivered, registered>>

\* handle, lines 128-132: the uniqueness check, then Account.create.
RegFindByEmail(w) ==
    /\ pc[w] = "reg_find"
    /\ LET existing_account == find_by_email(cmd[w].email) IN
        /\ Did(w, "account.find_by_email", cmd[w].email)
        /\ IF existing_account # {}
           THEN /\ Finish(w, "EmailAlreadyExists")
                /\ local' = [local EXCEPT ![w].error_email = cmd[w].email]
                /\ UNCHANGED issued
           ELSE /\ issued < MaxAccounts
                /\ issued' = issued + 1
                /\ local' = [local EXCEPT ![w].account =
                                {Account_create(cmd[w].email, cmd[w].password, issued + 1)}]
                /\ Goto(w, "reg_save")
    /\ UNCHANGED <<accounts, activations, now, handlers, events, outbox, cmd, pre, failed_attempts, replaced, delivered, registered>>

\* Mutant of RegSave: the row is written whatever email other rows hold.
RegSave_noConstraint(w) ==
    /\ pc[w] = "reg_save"
    /\ LET account == The(local[w].account)
           row == account_to_persistence(account) IN
        /\ Did(w, "account.save", account)
        /\ \E database_fails \in BOOLEAN :
            IF database_fails
            THEN Finish(w, "DatabaseError") /\ UNCHANGED accounts
            ELSE accounts' = AccountUpsert(row) /\ Goto(w, "reg_dispatch")
    /\ UNCHANGED <<activations, now, handlers, issued, events, outbox, cmd, local, pre, failed_attempts,
                   replaced, delivered, registered>>

\* Mutant of RegSave: a failed save does not stop the handler.
RegSave_dispatchAnyway(w) ==
    /\ pc[w] = "reg_save"
    /\ LET account == The(local[w].account)
           row == account_to_persistence(account) IN
        /\ Did(w, "account.save", account)
        /\ \E database_fails \in BOOLEAN :
            IF database_fails \/ EmailConflict(row)
            THEN Goto(w, "reg_dispatch") /\ UNCHANGED accounts
            ELSE accounts' = AccountUpsert(row) /\ Goto(w, "reg_dispatch")
    /\ UNCHANGED <<activations, now, handlers, issued, events, outbox, cmd, local, pre, failed_attempts,
                   replaced, delivered, registered>>

\* handle, line 134: repository.save(account).  The statement fails on the
\* UNIQUE(email) constraint (IntegrityError) or because the database does
\* (DatabaseError); either way nothing is written and the error propagates.
RegSave(w) ==
    /\ pc[w] = "reg_save"
    /\ LET account == The(local[w].account)
           row == account_to_persistence(account) IN
        /\ Did(w, "account.save", account)
        /\ \E database_fails \in BOOLEAN :
            IF database_fails
            THEN Finish(w, "DatabaseError") /\ UNCHANGED accounts
            ELSE IF EmailConflict(row)
            THEN Finish(w, "IntegrityError") /\ UNCHANGED accounts
            ELSE accounts' = AccountUpsert(row) /\ Goto(w, "reg_dispatch")
    /\ UNCHANGED <<activations, now, handlers, issued, events, outbox, cmd, local, pre, failed_attempts, replaced, delivered, registered>>

\* Mutant of RegDispatch: the event is queued for its handler and handle
\* returns without waiting for it.
RegDispatch_async(w) ==
    /\ pc[w] = "reg_dispatch"
    /\ LET account == The(local[w].account)
           event == AccountCreated(account.id, account.email, now) IN
        /\ events' = Append(events, event)
        /\ Did(w, "dispatcher.dispatch", event)
        /\ delivered' = Deliver(HandlerFor(event), event)
        /\ local' = [local EXCEPT ![w].event = {event}]
        /\ Finish(w, "ok")
    /\ UNCHANGED <<accounts, activations, now, handlers, issued, outbox, cmd, pre, failed_attempts,
                   replaced, registered>>

\* handle, lines 138-144, InMemoryEventDispatcher.dispatch and the start of
\* AccountCreatedHandler.handle (line 144): the event is built and handed to
\* the handler registered for its type; AccountCreatedHandler creates the
\* activation, a recording handler keeps the event and returns.
RegDispatch(w) ==
    /\ pc[w] = "reg_dispatch"
    /\ LET account == The(local[w].account)
           event == AccountCreated(account.id, account.email, now) IN
        /\ events' = Append(events, event)
        /\ Did(w, "dispatcher.dispatch", event)
        /\ delivered' = Deliver(HandlerFor(event), event)
        /\ IF HandlerFor(event) = {"AccountCreatedHandler"}
           THEN \E random_number \in GenNumbers :
                /\ local' = [local EXCEPT
                       ![w].event = {event},
                       ![w].activation = {AccountActivation_create_for_account(
                            event.account_id, ActivationCode_generate(random_number), now)}]
                /\ Goto(w, "ach_save")
           ELSE /\ local' = [local EXCEPT ![w].event = {event}]
                /\ Finish(w, "ok")
    /\ UNCHANGED <<accounts, activations, now, handlers, issued, outbox, cmd, pre, failed_attempts,
                   replaced, registered>>

\* Mutant of AchSave: the email is sent whether or not the save succeeded.
AchSave_sendAnyway(w) ==
    /\ pc[w] = "ach_save"
    /\ LET activation == The(local[w].activation)
           row == activation_to_persistence(activation) IN
        /\ Did(w, "activation.save", activation)
        /\ \E database_fails \in BOOLEAN :
            IF database_fails \/ row.account_id \notin DOMAIN accounts
            THEN Goto(w, "ach_send") /\ UNCHANGED <<activations, replaced>>
            ELSE /\ activations' = ActivationUpsert(row)
                 /\ replaced' = [replaced EXCEPT ![row.account_id] = Overwritten(row)]
                 /\ Goto(w, "ach_send")
    /\ UNCHANGED <<accounts, now, handlers, issued, events, outbox, cmd, local, pre, failed_attempts,
                   delivered, registered>>

\* Mutant of AchSave: registration is atomic: when the activation save
\* fails, the account row saved before the dispatch is rolled back.
AchSave_rollback(w) ==
    /\ pc[w] = "ach_save"
    /\ LET activation == The(local[w].activation)
           row == activation_to_persistence(activation) IN
        /\ Did(w, "activation.save", activation)
        /\ \E database_fails \in BOOLEAN :
            IF database_fails
            THEN /\ Finish(w, "DatabaseError")
                 /\ accounts' = [i \in DOMAIN accounts \ {row.account_id} |-> accounts[i]]
                 /\ UNCHANGED <<activations, replaced>>
            ELSE IF row.account_id \notin DOMAIN accounts
            THEN Finish(w, "ForeignKeyViolation") /\ UNCHANGED <<accounts, activations, replaced>>
            ELSE /\ activations' = ActivationUpsert(row)
                 /\ replaced' = [replaced EXCEPT ![row.account_id] = Overwritten(row)]
                 /\ Goto(w, "ach_send")
                 /\ UNCHANGED accounts
    /\ UNCHANGED <<now, handlers, issued, events, outbox, cmd, local, pre, failed_attempts,
                   delivered, registered>>

\* Mutant of AchSave: the dispatcher logs the handler's exception and
\* returns, so the registration goes on as if the handler had succeeded.
AchSave_logged(w) ==
    /\ pc[w] = "ach_save"
    /\ LET activation == The(local[w].activation)
           row == activation_to_persistence(activation) IN
        /\ Did(w, "activation.save", activation)
        /\ \E database_fails \in BOOLEAN :
            IF database_fails
            THEN Finish(w, "ok") /\ UNCHANGED <<activations, replaced>>
            ELSE IF row.account_id \notin DOMAIN accounts
            THEN Finish(w, "ok") /\ UNCHANGED <<activations, replaced>>
            ELSE /\ activations' = ActivationUpsert(row)
                 /\ replaced' = [replaced EXCEPT ![row.account_id] = Overwritten(row)]
                 /\ Goto(w, "ach_send")
    /\ UNCHANGED <<accounts, now, handlers, issued, events, outbox, cmd, local, pre, failed_attempts,
                   delivered, registered>>

\* AccountCreatedHandler.handle, line 146: activation_repository.save.
AchSave(w) ==
    /\ pc[w] = "ach_save"
    /\ LET activation == The(local[w].activation)
           row == activation_to_persistence(activation) IN
        /\ Did(w, "activation.save", activation)
        /\ \E database_fails \in BOOLEAN :
            IF database_fails
            THEN Finish(w, "DatabaseError") /\ UNCHANGED <<activations, replaced>>
            ELSE IF row.account_id \notin DOMAIN accounts
            THEN Finish(w, "ForeignKeyViolation") /\ UNCHANGED <<activations, replaced>>
            ELSE /\ activations' = ActivationUpsert(row)
                 /\ replaced' = [replaced EXCEPT ![row.account_id] = Overwritten(row)]
                 /\ Goto(w, "ach_send")
    /\ UNCHANGED <<accounts, now, handlers, issued, events, outbox, cmd, local, pre, failed_attempts,
                   delivered, registered>>

\* Mutant of AchSendEmail: the mail error is caught and the handler returns.
AchSendEmail_swallowed(w) ==
    /\ pc[w] = "ach_send"
    /\ LET event == The(local[w].event)
           activation == The(local[w].activation)
           message == [to_email |-> event.email, account_id |-> event.account_id,
                       code |-> activation.code] IN
        /\ Did(w, "email.send_email", message)
        /\ \E email_fails \in BOOLEAN :
            IF email_fails
            THEN Finish(w, "ok") /\ UNCHANGED outbox
            ELSE outbox' = Append(outbox, message) /\ Finish(w, "ok")
    /\ UNCHANGED <<accounts, activations, now, handlers, issued, events, cmd, local, pre, failed_attempts,
                   replaced, delivered, registered>>

\* Mutant of AchSendEmail: a failed send removes the activation saved before it.
AchSendEmail_compensate(w) ==
    /\ pc[w] = "ach_send"
    /\ LET event == The(local[w].event)
           activation == The(local[w].activation)
           message == [to_email |-> event.email, account_id |-> event.account_id,
                       code |-> activation.code] IN
        /\ Did(w, "email.send_email", message)
        /\ \E email_fails \in BOOLEAN :
            IF email_fails
            THEN /\ Finish(w, "EmailError")
                 /\ activations' = [i \in DOMAIN activations \ {activation.account_id} |->
                                        activations[i]]
                 /\ UNCHANGED outbox
            ELSE /\ outbox' = Append(outbox, message)
                 /\ Finish(w, "ok")
                 /\ UNCHANGED activations
    /\ UNCHANGED <<accounts, now, handlers, issued, events, cmd, local, pre, failed_attempts,
                   replaced, delivered, registered>>

\* AccountCreatedHandler.handle, lines 148-160: the message carries the link
\* and the code, and is handed to the email service, which may fail.
AchSendEmail(w) ==
    /\ pc[w] = "ach_send"
    /\ LET event == The(local[w].event)
           activation == The(local[w].activation)
           message == [to_email |-> event.email, account_id |-> event.account_id,
                       code |-> activation.code] IN
        /\ Did(w, "email.send_email", message)
        /\ \E email_fails \in BOOLEAN :
            IF email_fails
            THEN Finish(w, "EmailError") /\ UNCHANGED outbox
            ELSE outbox' = Append(outbox, message) /\ Finish(w, "ok")
    /\ UNCHANGED <<accounts, activations, now, handlers, issued, events, cmd, local, pre, failed_attempts, replaced, delivered, registered>>

\* The handler's caller has taken the outcome; the worker serves the next request.
Return(w) ==
    /\ pc[w] = "done"
    /\ pc' = [pc EXCEPT ![w] = "idle"]
    /\ cmd' = [cmd EXCEPT ![w] = NoCmd]
    /\ local' = [local EXCEPT ![w] = NoLocal]
    /\ result' = [result EXCEPT ![w] = "none"]
    /\ calls' = [calls EXCEPT ![w] = <<>>]
    /\ pre' = [pre EXCEPT ![w] = NoPre]
    /\ UNCHANGED <<accounts, activations, now, handlers, issued, events, outbox, failed_attempts, replaced, delivered, registered>>

\* Time passes.
Tick ==
    /\ \E t \in SampleTimes : t > now /\ now' = t
    /\ UNCHANGED <<accounts, activations, handlers, issued, events, outbox,
                   pc, cmd, local, result, calls, pre, failed_attempts, replaced, delivered, registered>>

Next ==
    \/ Tick
    \/ \E w \in SerialWorkers : RegisterCall(w)
    \/ \E w \in SerialWorkers : RegFindByEmail(w)
    \/ \E w \in SerialWorkers : RegSave(w)
    \/ \E w \in SerialWorkers : RegDispatch(w)
    \/ \E w \in SerialWorkers : AchSave(w)
    \/ \E w \in SerialWorkers : AchSendEmail(w)
    \/ \E w \in SerialWorkers : ActivateCall(w)
    \/ \E w \in SerialWorkers : ActFindAccount(w)
    \/ \E w \in SerialWorkers : ActFindActivation(w)
    \/ \E w \in SerialWorkers : ActValidate(w)
    \/ \E w \in SerialWorkers : ActSave(w)
    \/ \E w \in SerialWorkers : Return(w)

Spec == Init /\ [][Next]_vars

\* The activation repository used directly, as its integration tests do: the
\* database holds one account, and a client saves activations created for
\* any account id, between activation requests.
InitStore ==
    /\ accounts = <<account_to_persistence(
                       Account_create(Email(<<"u", "@", "x">>), "hashA", 1))>>
    /\ issued = 1
    /\ activations = <<>>
    /\ now = 0
    /\ handlers = [AccountCreated |-> "AccountCreatedHandler"]
    /\ events = <<>>
    /\ outbox = <<>>
    /\ pc = [w \in Workers |-> "idle"]
    /\ cmd = [w \in Workers |-> NoCmd]
    /\ local = [w \in Workers |-> NoLocal]
    /\ result = [w \in Workers |-> "none"]
    /\ calls = [w \in Workers |-> <<>>]
    /\ pre = [w \in Workers |-> NoPre]
    /\ failed_attempts = [account_id |-> 0, count |-> 0]
    /\ replaced = [i \in Ids |-> {}]
    /\ delivered = <<>>
    /\ registered = <<[event_type |-> "AccountCreated", handler_type |-> "AccountCreatedHandler"]>>

\* activation_repository.save(AccountActivation.create_for_account(id)).
StoreActivation(w) ==
    /\ pc[w] = "idle"
    /\ \E id \in Ids, random_number \in GenNumbers :
        LET activation == AccountActivation_create_for_account(
                              id, ActivationCode_generate(random_number), now)
            row == activation_to_persistence(activation) IN
        /\ cmd' = [cmd EXCEPT ![w] = [NoCmd EXCEPT !.op = "save_activation", !.account_id = id]]
        /\ pre' = [pre EXCEPT ![w] = Snapshot]
        /\ local' = [local EXCEPT ![w].activation = {activation}]
        /\ Did(w, "activation.save", activation)
        /\ IF row.account_id \notin DOMAIN accounts
           THEN Finish(w, "ForeignKeyViolation") /\ UNCHANGED <<activations, replaced>>
           ELSE /\ activations' = ActivationUpsert(row)
                /\ replaced' = [replaced EXCEPT ![row.account_id] = Overwritten(row)]
                /\ Finish(w, "ok")
    /\ UNCHANGED <<accounts, now, handlers, issued, events, outbox, failed_attempts,
                   delivered, registered>>

NextStore ==
    \/ Tick
    \/ \E w \in SerialWorkers : StoreActivation(w)
    \/ \E w \in SerialWorkers : ActivateCall(w)
    \/ \E w \in SerialWorkers : ActFindAccount(w)
    \/ \E w \in SerialWorkers : ActFindActivation(w)
    \/ \E w \in SerialWorkers : ActValidate(w)
    \/ \E w \in SerialWorkers : ActSave(w)
    \/ \E w \in SerialWorkers : Return(w)

SpecStore == InitStore /\ [][NextStore]_vars

\* The dispatcher used directly, as its unit tests do: at start-up, before
\* any request is served, a client registers recording handlers; later it
\* dispatches events of a class that main.py registered no handler for.
DispatcherRegister ==
    /\ \A w \in Workers : pc[w] = "idle"
    /\ issued = 0 /\ events = <<>>
    /\ Len(registered) < MaxRegistered
    /\ \E event_type \in EventTypes, handler_type \in RecordingHandlers :
        /\ handlers' = InMemoryEventDispatcher_register(event_type, handler_type)
        /\ registered' = Append(registered, [event_type |-> event_type,
                                             handler_type |-> handler_type])
    /\ UNCHANGED <<accounts, activations, now, issued, events, outbox,
                   pc, cmd, local, result, calls, pre, failed_attempts, replaced, delivered>>

\* dispatcher.dispatch(event), lines 102-120, with a handler that records
\* the event if there is a handler.
DispatcherDispatch(w) ==
    /\ pc[w] = "idle"
    /\ Len(events) < MaxDispatched
    /\ \E event \in TestEvents :
        /\ cmd' = [cmd EXCEPT ![w] = [NoCmd EXCEPT !.op = "dispatch"]]
        /\ pre' = [pre EXCEPT ![w] = Snapshot]
        /\ local' = [local EXCEPT ![w].event = {event}]
        /\ events' = Append(events, event)
        /\ Did(w, "dispatcher.dispatch", event)
        /\ delivered' = Deliver(HandlerFor(event), event)
        /\ Finish(w, "ok")
    /\ UNCHANGED <<accounts, activations, now, handlers, issued, outbox, failed_attempts,
                   replaced, registered>>

NextDispatcher ==
    \/ DispatcherRegister
    \/ \E w \in SerialWorkers : DispatcherDispatch(w)
    \/ \E w \in SerialWorkers : RegisterCall(w)
    \/ \E w \in SerialWorkers : RegFindByEmail(w)
    \/ \E w \in SerialWorkers : RegSave(w)
    \/ \E w \in SerialWorkers : RegDispatch(w)
    \/ \E w \in SerialWorkers : AchSave(w)
    \/ \E w \in SerialWorkers : AchSendEmail(w)
    \/ \E w \in SerialWorkers : Return(w)

SpecDispatcher == Init /\ [][NextDispatcher]_vars

\* Concurrent registrations: every worker serves one registration request,
\* and the handlers interleave between repository / collaborator calls.
\* Workers are numbered in the order in which their requests arrive.
RegisterArrives(w) ==
    /\ \A v \in Workers : v < w => pc[v] # "idle"
    /\ RegisterCall(w)

NextRace ==
    \/ \E w \in Workers : RegisterArrives(w)
    \/ \E w \in Workers : RegFindByEmail(w)
    \/ \E w \in Workers : RegSave(w)
    \/ \E w \in Workers : RegDispatch(w)
    \/ \E w \in Workers : AchSave(w)
    \/ \E w \in Workers : AchSendEmail(w)

SpecRace == Init /\ [][NextRace]_vars

\* Registration requests served one after another, with time passing.
NextRegister ==
    \/ Tick
    \/ \E w \in SerialWorkers : RegisterCall(w)
    \/ \E w \in SerialWorkers : RegFindByEmail(w)
    \/ \E w \in SerialWorkers : RegSave(w)
    \/ \E w \in SerialWorkers : RegDispatch(w)
    \/ \E w \in SerialWorkers : AchSave(w)
    \/ \E w \in SerialWorkers : AchSendEmail(w)
    \/ \E w \in SerialWorkers : Return(w)

SpecRegister == Init /\ [][NextRegister]_vars

\* Concurrent registrations and activations: one account has been registered
\* (its row, its activation, its event and its mail exist), and the requests
\* of two clients, each a registration or an activation, interleave between
\* repository / collaborator calls.
MixWorkers == {1, 2}

InitMix ==
    /\ accounts = <<account_to_persistence(
                       Account_create(Email(<<"u", "@", "x">>), "hashA", 1))>>
    /\ issued = 1
    /\ activations = <<activation_to_persistence(
                          AccountActivation_create_for_account(
                              1, ActivationCode_generate(7), 0))>>
    /\ now = 0
    /\ handlers = [AccountCreated |-> "AccountCreatedHandler"]
    /\ events = <<AccountCreated(1, Email(<<"u", "@", "x">>), 0)>>
    /\ outbox = <<[to_email |-> Email(<<"u", "@", "x">>), account_id |-> 1,
                   code |-> ActivationCode_generate(7)]>>
    /\ pc = [w \in Workers |-> "idle"]
    /\ cmd = [w \in Workers |-> NoCmd]
    /\ local = [w \in Workers |-> NoLocal]
    /\ result = [w \in Workers |-> "none"]
    /\ calls = [w \in Workers |-> <<>>]
    /\ pre = [w \in Workers |-> NoPre]
    /\ failed_attempts = [account_id |-> 0, count |-> 0]
    /\ replaced = [i \in Ids |-> {}]
    /\ delivered = <<[handler |-> "AccountCreatedHandler",
                      event |-> AccountCreated(1, Email(<<"u", "@", "x">>), 0),
                      seq |-> 1]>>
    /\ registered = <<[event_type |-> "AccountCreated", handler_type |-> "AccountCreatedHandler"]>>

NextMix ==
    \/ Tick
    \/ \E w \in MixWorkers : RegisterCall(w)
    \/ \E w \in MixWorkers : RegFindByEmail(w)
    \/ \E w \in MixWorkers : RegSave(w)
    \/ \E w \in MixWorkers : RegDispatch(w)
    \/ \E w \in MixWorkers : AchSave(w)
    \/ \E w \in MixWorkers : AchSendEmail(w)
    \/ \E w \in MixWorkers : ActivateCall(w)
    \/ \E w \in MixWorkers : ActFindAccount(w)
    \/ \E w \in MixWorkers : ActFindActivation(w)
    \/ \E w \in MixWorkers : ActValidate(w)
    \/ \E w \in MixWorkers : ActSave(w)

SpecMix == InitMix /\ [][NextMix]_vars

\* The ActivationCode value object used directly, as its unit tests do.
\* ActivationCode(code) for a string.
ConstructCode(w) ==
    /\ pc[w] = "idle"
    /\ \E code \in CodeStrings :
        /\ cmd' = [cmd EXCEPT ![w] = [NoCmd EXCEPT !.op = "construct", !.code = code]]
        /\ Did(w, "ActivationCode", code)
        /\ Finish(w, ActivationCode_post_init(code))
    /\ pre' = [pre EXCEPT ![w] = Snapshot]
    /\ UNCHANGED <<accounts, activations, now, handlers, issued, events, outbox, local,
                   failed_attempts, replaced, delivered, registered>>

\* ActivationCode.generate(): the padded number is handed to the constructor.
GenerateCode(w) ==
    /\ pc[w] = "idle"
    /\ \E random_number \in GenNumbersEdge :
        LET random_code == ActivationCode_generate(random_number) IN
        /\ cmd' = [cmd EXCEPT ![w] = [NoCmd EXCEPT !.op = "generate", !.code = random_code]]
        /\ Did(w, "ActivationCode.generate", random_number)
        /\ Finish(w, ActivationCode_post_init(random_code))
    /\ pre' = [pre EXCEPT ![w] = Snapshot]
    /\ UNCHANGED <<accounts, activations, now, handlers, issued, events, outbox, local,
                   failed_attempts, replaced, delivered, registered>>

NextCode ==
    \/ \E w \in SerialWorkers : ConstructCode(w)
    \/ \E w \in SerialWorkers : GenerateCode(w)
    \/ \E w \in SerialWorkers : Return(w)

SpecCode == Init /\ [][NextCode]_vars

\* ------------------------------------------------------------------ claims
HasCall(w, name) == \E i \in DOMAIN calls[w] : calls[w][i].op = name
CallsOf(w, name) == SelectSeq(calls[w], LAMBDA c : c.op = name)
ActivateDone(w) == pc[w] = "done" /\ cmd[w].op = "activate"
RegisterDone(w) == pc[w] = "done" /\ cmd[w].op = "register"
\* The account / activation persisted for the command's id when handle() was called.
PreAccount(w) ==
    IF cmd[w].account_id \in DOMAIN pre[w].accounts
    THEN {account_to_domain(pre[w].accounts[cmd[w].account_id])} ELSE {}
PreActivation(w) ==
    IF cmd[w].account_id \in DOMAIN pre[w].activations
    THEN {activation_to_domain(pre[w].activations[cmd[w].account_id])} ELSE {}
ActivateFailures ==
    {"AccountNotFound", "ActivationCodeNotFound", "ActivationCodeExpired",
     "InvalidActivationCode"}

\* C1: when the account exists and its stored activation is already expired
\* as handle() is called (now > expires_at), the outcome is
\* ActivationCodeExpired whatever the supplied code, and the account is
\* neither activated nor saved.
C1_ExpiryWins ==
    \A w \in Workers :
        ( /\ ActivateDone(w)
          /\ PreAccount(w) # {}
          /\ PreActivation(w) # {}
          /\ pre[w].now > The(PreActivation(w)).expires_at )
        => /\ result[w] = "ActivationCodeExpired"
           /\ ~HasCall(w, "account.save")
           /\ local[w].account = PreAccount(w)
           /\ accounts = pre[w].accounts

\* C1 witness: an expired activation met with a wrong code.
C1_Witness ==
    \E w \in Workers :
        /\ ActivateDone(w)
        /\ PreAccount(w) # {}
        /\ PreActivation(w) # {}
        /\ pre[w].now > The(PreActivation(w)).expires_at
        /\ cmd[w].code # The(PreActivation(w)).code
        /\ result[w] = "ActivationCodeExpired"

\* The same with the stored code.
C1_WitnessRightCode ==
    \E w \in Workers :
        /\ ActivateDone(w)
        /\ PreActivation(w) # {}
        /\ pre[w].now > The(PreActivation(w)).expires_at
        /\ cmd[w].code = The(PreActivation(w)).code
        /\ result[w] = "ActivationCodeExpired"

\* C2: when no account with the command's id is persisted, the activation
\* store is never queried and the outcome is AccountNotFound, for every
\* supplied code and whatever the activation store holds.
C2_AccountNotFoundFirst ==
    \A w \in Workers :
        (cmd[w].op = "activate" /\ PreAccount(w) = {})
        => /\ ~HasCall(w, "activation.find_by_account_id")
           /\ (pc[w] = "done" => result[w] = "AccountNotFound")

\* C2 witness: AccountNotFound while the activation store is not empty.
C2_Witness ==
    \E w \in Workers :
        /\ ActivateDone(w)
        /\ PreAccount(w) = {}
        /\ pre[w].activations # <<>>
        /\ result[w] = "AccountNotFound"
        /\ calls[w] = <<Call("account.find_by_id", cmd[w].account_id)>>

InWindow(w) ==
    /\ ActivateDone(w)
    /\ PreAccount(w) # {}
    /\ PreActivation(w) # {}
    /\ local[w].checked_at <= The(PreActivation(w)).expires_at

\* C4: within the validity window a code different from the stored one ends
\* InvalidActivationCode and changes neither the account nor the stored
\* activation; the stored code ends "ok", however many attempts failed before.
C4_WrongCodeKeepsCode ==
    \A w \in Workers :
        InWindow(w) =>
            IF cmd[w].code # The(PreActivation(w)).code
            THEN /\ result[w] = "InvalidActivationCode"
                 /\ accounts = pre[w].accounts
                 /\ activations = pre[w].activations
                 /\ local[w].account = PreAccount(w)
            ELSE result[w] = "ok"

\* C4 witness: the stored code succeeds after MaxFailedCount failed attempts
\* on the same, not yet activated, account.
C4_Witness ==
    \E w \in Workers :
        /\ InWindow(w)
        /\ cmd[w].code = The(PreActivation(w)).code
        /\ failed_attempts.account_id = cmd[w].account_id
        /\ failed_attempts.count >= MaxFailedCount
        /\ ~The(PreAccount(w)).is_activated
        /\ result[w] = "ok"
        /\ accounts[cmd[w].account_id].is_activated

\* C5: a failing outcome of the activation handler leaves both stores as
\* they were when handle() was called, and save was never called.
C5_FailureWritesNothing ==
    \A w \in Workers :
        (ActivateDone(w) /\ result[w] \in ActivateFailures)
        => /\ accounts = pre[w].accounts
           /\ activations = pre[w].activations
           /\ ~HasCall(w, "account.save")

\* C5 witness: a wrong code for an account that is not activated.
C5_Witness ==
    \E w \in Workers :
        /\ ActivateDone(w)
        /\ result[w] = "InvalidActivationCode"
        /\ ~accounts[cmd[w].account_id].is_activated

\* C6: the stored code within the window succeeds, and the account is saved
\* exactly once, activated, with the id, email and password that were loaded.
C6_SuccessSavesOnce ==
    \A w \in Workers :
        (InWindow(w) /\ cmd[w].code = The(PreActivation(w)).code)
        => LET loaded == The(local[w].loaded)
               saved == [loaded EXCEPT !.is_activated = TRUE] IN
           /\ result[w] = "ok"
           /\ local[w].loaded = PreAccount(w)
           /\ CallsOf(w, "account.save") = <<Call("account.save", saved)>>
           /\ accounts =
                [pre[w].accounts EXCEPT ![loaded.id] = account_to_persistence(saved)]
           /\ activations = pre[w].activations

\* C6 witness: a first successful activation, at the last valid instant.
C6_Witness ==
    \E w \in Workers :
        /\ InWindow(w)
        /\ cmd[w].code = The(PreActivation(w)).code
        /\ ~The(PreAccount(w)).is_activated
        /\ local[w].checked_at = The(PreActivation(w)).expires_at
        /\ result[w] = "ok"
        /\ accounts[cmd[w].account_id].is_activated

\* C7: repeating the call on an already activated account with the stored,
\* unexpired code succeeds, saves the account once more, and leaves the
\* persisted state as it was after the first success.
C7_Idempotent ==
    \A w \in Workers :
        ( /\ InWindow(w)
          /\ cmd[w].code = The(PreActivation(w)).code
          /\ The(PreAccount(w)).is_activated )
        => /\ result[w] = "ok"
           /\ Len(CallsOf(w, "account.save")) = 1
           /\ accounts[cmd[w].account_id].is_activated
           /\ accounts = pre[w].accounts
           /\ activations = pre[w].activations

\* C7 witness: such a repeated call.
C7_Witness ==
    \E w \in Workers :
        /\ InWindow(w)
        /\ cmd[w].code = The(PreActivation(w)).code
        /\ The(PreAccount(w)).is_activated
        /\ result[w] = "ok"
        /\ HasCall(w, "account.save")

PreByEmail(w) ==
    { i \in DOMAIN pre[w].accounts : pre[w].accounts[i].email = cmd[w].email }

\* C9: registering an email whose normalized form is already persisted ends
\* EmailAlreadyExists carrying that email; the only call made is the lookup,
\* so nothing is saved, dispatched, generated or sent.
C9_DuplicateEmailRejected ==
    \A w \in Workers :
        (RegisterDone(w) /\ PreByEmail(w) # {})
        => /\ result[w] = "EmailAlreadyExists"
           /\ local[w].error_email = cmd[w].email
           /\ calls[w] = <<Call("account.find_by_email", cmd[w].email)>>
           /\ local[w].account = {}
           /\ accounts = pre[w].accounts
           /\ activations = pre[w].activations
           /\ events = pre[w].events
           /\ outbox = pre[w].outbox

\* C9 witness: the address sent differs in case from the persisted one.
C9_Witness ==
    \E w \in Workers :
        /\ RegisterDone(w)
        /\ PreByEmail(w) # {}
        /\ cmd[w].raw_email # cmd[w].email
        /\ result[w] = "EmailAlreadyExists"

\* C10: a successful registration has added exactly one account row, under
\* an id no account had, with the command's email and password and
\* is_activated = false, and has dispatched exactly one AccountCreated event,
\* carrying that id and email.
C10_RegistrationSuccess ==
    \A w \in Workers :
        (RegisterDone(w) /\ result[w] = "ok")
        => \E id \in Ids :
            /\ id \notin DOMAIN pre[w].accounts
            /\ DOMAIN accounts = DOMAIN pre[w].accounts \cup {id}
            /\ \A i \in DOMAIN pre[w].accounts : accounts[i] = pre[w].accounts[i]
            /\ accounts[id] = [id |-> id, email |-> cmd[w].email,
                               password_hash |-> cmd[w].password,
                               is_activated |-> FALSE]
            /\ Len(events) = Len(pre[w].events) + 1
            /\ SubSeq(events, 1, Len(pre[w].events)) = pre[w].events
            /\ events[Len(events)].type = "AccountCreated"
            /\ events[Len(events)].account_id = id
            /\ events[Len(events)].email = cmd[w].email
            /\ Len(CallsOf(w, "dispatcher.dispatch")) = 1
            /\ Len(CallsOf(w, "account.save")) = 1

\* C10 witness: a second account has been registered.
C10_Witness ==
    \E w \in Workers :
        /\ RegisterDone(w)
        /\ result[w] = "ok"
        /\ pre[w].accounts # <<>>
        /\ Len(events) = 2

\* The last collaborator call request w made, if it made one.
LastCall(w) == IF calls[w] = <<>> THEN {} ELSE {calls[w][Len(calls[w])].op}

\* C11: every dispatched AccountCreated event carries the id and email of a
\* persisted account (the dispatch step writes no account, so the account was
\* persisted before it), no two dispatched events carry the same account id,
\* and a registration whose account save raised has dispatched nothing and
\* has written no row.
C11_DispatchAfterPersist ==
    /\ \A i \in DOMAIN events :
          events[i].type = "AccountCreated"
          => /\ events[i].account_id \in DOMAIN accounts
             /\ accounts[events[i].account_id].email = events[i].email
    /\ \A i, j \in DOMAIN events :
          (events[i].type = "AccountCreated" /\ events[j].type = "AccountCreated" /\ i # j)
          => events[i].account_id # events[j].account_id
    /\ \A w \in Workers :
          (RegisterDone(w) /\ LastCall(w) = {"account.save"})
          => /\ result[w] \in {"DatabaseError", "IntegrityError"}
             /\ ~HasCall(w, "dispatcher.dispatch")
             /\ The(local[w].account).id \notin DOMAIN accounts
             /\ \A i \in DOMAIN events : events[i].account_id # The(local[w].account).id

\* C11 witness: a registration lost the race on the unique email after the
\* winner's event was dispatched.
C11_Witness ==
    \E w \in Workers :
        /\ RegisterDone(w)
        /\ result[w] = "IntegrityError"
        /\ LastCall(w) = {"account.save"}
        /\ Len(events) = 1
        /\ events[1].email = cmd[w].email

\* Positions in the call trace of request w at which `name` was called.
CallIndexes(w, name) == { i \in DOMAIN calls[w] : calls[w][i].op = name }

\* C12: in AccountCreatedHandler.handle the email service is called only
\* directly after activation_repository.save, and only when that save has
\* written its row: the code in the message is the code persisted for the
\* account; when the save raises, no email is sent.
C12_SaveBeforeEmail ==
    \A w \in Workers :
        /\ \A k \in CallIndexes(w, "email.send_email") :
              /\ k > 1
              /\ calls[w][k - 1].op = "activation.save"
              /\ LET message == calls[w][k].arg
                     saved == calls[w][k - 1].arg IN
                 /\ saved.account_id = message.account_id
                 /\ message.account_id \in DOMAIN activations
                 /\ activations[message.account_id] = activation_to_persistence(saved)
                 /\ message.code = activations[message.account_id].code
        /\ (pc[w] = "done" /\ LastCall(w) = {"activation.save"})
           => /\ result[w] \in {"DatabaseError", "ForeignKeyViolation"}
              /\ outbox = pre[w].outbox
              /\ activations = pre[w].activations
    /\ \A i \in DOMAIN outbox :
          /\ outbox[i].account_id \in DOMAIN activations
          /\ outbox[i].code = activations[outbox[i].account_id].code

\* C12 witness: the email of a second registration has been sent.
C12_Witness ==
    \E w \in Workers :
        /\ RegisterDone(w)
        /\ LastCall(w) = {"email.send_email"}
        /\ Len(outbox) = 2
        /\ Len(pre[w].outbox) = 1
        /\ outbox[2].code = activations[The(local[w].account).id].code

\* The other case of C12: the activation save raised, and nothing was sent.
C12_WitnessSaveRaises ==
    \E w \in Workers :
        /\ RegisterDone(w)
        /\ LastCall(w) = {"activation.save"}
        /\ result[w] = "DatabaseError"
        /\ The(local[w].account).id \notin DOMAIN activations

\* No message for this account id has been sent.
NeverMailed(sent, account_id) == \A i \in DOMAIN sent : sent[i].account_id # account_id

\* C13: when send_email raises, the registration ends with that error after
\* exactly one save of the activation and one send attempt, the account and
\* the activation stay persisted, and an activation call with the stored
\* code, checked not after expires_at, succeeds for an account whose
\* activation email was never sent.
C13_FailedSendKeepsCode ==
    \A w \in Workers :
        /\ (RegisterDone(w) /\ result[w] = "EmailError")
           => LET account == The(local[w].account)
                  activation == The(local[w].activation) IN
              /\ [i \in DOMAIN calls[w] |-> calls[w][i].op] =
                    <<"account.find_by_email", "account.save", "dispatcher.dispatch",
                      "activation.save", "email.send_email">>
              /\ outbox = pre[w].outbox
              /\ account.id \in DOMAIN accounts
              /\ accounts[account.id] = account_to_persistence(account)
              /\ find_by_account_id(account.id) = {activation}
        /\ ( /\ InWindow(w)
             /\ NeverMailed(pre[w].outbox, cmd[w].account_id)
             /\ cmd[w].code = The(PreActivation(w)).code )
           => /\ result[w] = "ok"
              /\ accounts[cmd[w].account_id].is_activated

\* C13 witness: an account whose activation email failed has been activated
\* with the code that was saved.
C13_Witness ==
    \E w \in Workers :
        /\ InWindow(w)
        /\ NeverMailed(pre[w].outbox, cmd[w].account_id)
        /\ cmd[w].code = The(PreActivation(w)).code
        /\ ~The(PreAccount(w)).is_activated
        /\ result[w] = "ok"
        /\ accounts[cmd[w].account_id].is_activated

\* The first half of C13: a registration has ended with the mail error.
C13_WitnessEmailError ==
    \E w \in Workers :
        /\ RegisterDone(w)
        /\ result[w] = "EmailError"
        /\ The(local[w].account).id \in DOMAIN activations

StoreDone(w) == pc[w] = "done" /\ cmd[w].op = "save_activation"

\* C14: find_by_account_id never has more than one activation to return;
\* a successful save for an account leaves exactly the saved activation
\* (code, created_at, expires_at) for that account and touches no other
\* row; and a code that the latest save overwrote with a different one is
\* not accepted by ActivateAccountHandler.
C14_OneActivationPerAccount ==
    /\ \A id \in Ids : Cardinality(find_by_account_id(id)) <= 1
    /\ \A w \in Workers :
          (StoreDone(w) /\ result[w] = "ok")
          => LET id == cmd[w].account_id IN
             /\ find_by_account_id(id) = local[w].activation
             /\ DOMAIN activations = DOMAIN pre[w].activations \cup {id}
             /\ \A i \in DOMAIN pre[w].activations \ {id} :
                   activations[i] = pre[w].activations[i]
             /\ replaced[id] = { a.code : a \in PreActivation(w) }
    /\ \A w \in Workers :
          ( /\ ActivateDone(w)
            /\ PreAccount(w) # {}
            /\ PreActivation(w) # {}
            /\ cmd[w].code \in replaced[cmd[w].account_id]
            /\ cmd[w].code # The(PreActivation(w)).code )
          => /\ result[w] \in {"InvalidActivationCode", "ActivationCodeExpired"}
             /\ accounts = pre[w].accounts

\* C14 witness: the code that was replaced is presented inside the validity
\* window of the activation that replaced it, and is refused.
C14_Witness ==
    \E w \in Workers :
        /\ InWindow(w)
        /\ cmd[w].code \in replaced[cmd[w].account_id]
        /\ cmd[w].code # The(PreActivation(w)).code
        /\ result[w] = "InvalidActivationCode"

\* The save that replaces: a different code and a later validity window.
C14_WitnessReplace ==
    \E w \in Workers :
        /\ StoreDone(w)
        /\ result[w] = "ok"
        /\ PreActivation(w) # {}
        /\ The(PreActivation(w)).code # The(local[w].activation).code
        /\ The(PreActivation(w)).expires_at < The(local[w].activation).expires_at
        /\ find_by_account_id(cmd[w].account_id) = local[w].activation

\* Request w is a registration whose lookup returned None: it holds the
\* account it created.
PassedCheck(w) == cmd[w].op = "register" /\ local[w].account # {}

\* C15: two concurrent registrations of the same normalized email can both
\* be past the existence check; each then holds an account of its own (two
\* ids, the same email), each calls save directly after its one lookup, and
\* when both have called save at most one of the two rows is persisted,
\* the other call having raised.
C15_CheckThenActWindow ==
    \A w1, w2 \in Workers :
        (w1 # w2 /\ PassedCheck(w1) /\ PassedCheck(w2) /\ cmd[w1].email = cmd[w2].email)
        => LET a1 == The(local[w1].account)
               a2 == The(local[w2].account) IN
           /\ a1.id # a2.id
           /\ a1.email = a2.email
           /\ calls[w1][1] = Call("account.find_by_email", cmd[w1].email)
           /\ HasCall(w1, "account.save") => calls[w1][2] = Call("account.save", a1)
           /\ (HasCall(w1, "account.save") /\ HasCall(w2, "account.save"))
              => /\ ~(a1.id \in DOMAIN accounts /\ a2.id \in DOMAIN accounts)
                 /\ a2.id \in DOMAIN accounts
                    => result[w1] \in {"IntegrityError", "DatabaseError"}

\* C15 witness: both requests, whose addresses differ only in case, have
\* seen find_by_email return None and neither has called save yet.
C15_Witness ==
    \E w1, w2 \in Workers :
        /\ w1 # w2
        /\ cmd[w1].email = cmd[w2].email
        /\ cmd[w1].raw_email # cmd[w2].raw_email
        /\ pc[w1] = "reg_save" /\ pc[w2] = "reg_save"
        /\ calls[w1] = <<Call("account.find_by_email", cmd[w1].email)>>
        /\ calls[w2] = <<Call("account.find_by_email", cmd[w2].email)>>
        /\ find_by_email(cmd[w1].email) = {}

\* The continuation of C15: both have called save, one row is written and the
\* other save raised on the unique email.
C15_WitnessBothSave ==
    \E w1, w2 \in Workers :
        /\ w1 # w2
        /\ PassedCheck(w1) /\ PassedCheck(w2)
        /\ cmd[w1].email = cmd[w2].email
        /\ HasCall(w1, "account.save") /\ HasCall(w2, "account.save")
        /\ The(local[w2].account).id \in DOMAIN accounts
        /\ result[w1] = "IntegrityError"

\* C16: no two persisted accounts have the same email, and every persisted
\* email is in its normalized form; a registration whose save met an email
\* stored under another id ends with the conflict error, and its row is not
\* written.
C16_UniqueEmail ==
    /\ \A i, j \in DOMAIN accounts :
          i # j => accounts[i].email # accounts[j].email
    /\ \A i \in DOMAIN accounts : accounts[i].email = Email(accounts[i].email)
    /\ \A w \in Workers :
          (RegisterDone(w) /\ LastCall(w) = {"account.save"})
          => LET account == The(local[w].account) IN
             /\ account.id \notin DOMAIN accounts
             /\ (\E i \in DOMAIN accounts : accounts[i].email = account.email)
                => result[w] \in {"IntegrityError", "DatabaseError"}
             /\ result[w] = "IntegrityError"
                => \E i \in DOMAIN accounts :
                      i # account.id /\ accounts[i].email = account.email

\* C16 witness: the save of the request that lost the race was rejected; the
\* address it sent is the upper-case spelling of the stored one.
C16_Witness ==
    \E w \in Workers :
        /\ RegisterDone(w)
        /\ result[w] = "IntegrityError"
        /\ cmd[w].raw_email # cmd[w].email
        /\ Cardinality(DOMAIN accounts) = 1
        /\ The(local[w].account).id \notin DOMAIN accounts
        /\ \E i \in DOMAIN accounts : accounts[i].email = cmd[w].email

\* The handler class of the latest register() call for this event type, if any.
LastRegistered(calls_made, event_type) ==
    LET for_type == { i \in DOMAIN calls_made : calls_made[i].event_type = event_type } IN
    IF for_type = {} THEN {}
    ELSE {calls_made[CHOOSE i \in for_type : \A j \in for_type : j <= i].handler_type}

DispatchDone(w) == pc[w] = "done" /\ cmd[w].op = "dispatch"

\* C17: dispatch of an event whose type has no handler returns normally,
\* invokes nothing and leaves stores, handlers and deliveries as they were;
\* an event of a registered type is delivered exactly once, to the handler
\* of the latest register() call for its type; deliveries happen in the
\* order of the dispatch calls, at most one per dispatched event.
C17_DispatchToLatestHandler ==
    /\ \A t \in EventTypes : HandlerFor([type |-> t]) = LastRegistered(registered, t)
    /\ \A i \in DOMAIN delivered :
          /\ delivered[i].seq \in DOMAIN events
          /\ delivered[i].event = events[delivered[i].seq]
          /\ \A j \in DOMAIN delivered : i < j => delivered[i].seq < delivered[j].seq
    /\ \A w \in Workers :
          DispatchDone(w)
          => LET event == The(local[w].event)
                 handler == LastRegistered(pre[w].registered, event.type) IN
             /\ result[w] = "ok"
             /\ events = Append(pre[w].events, event)
             /\ accounts = pre[w].accounts
             /\ activations = pre[w].activations
             /\ outbox = pre[w].outbox
             /\ handlers = pre[w].handlers
             /\ IF handler = {}
                THEN delivered = pre[w].delivered
                ELSE delivered = Append(pre[w].delivered,
                                        [handler |-> The(handler), event |-> event,
                                         seq |-> Len(events)])
    /\ \A w \in Workers :
          (cmd[w].op = "register" /\ HasCall(w, "dispatcher.dispatch"))
          => LET event == The(local[w].event)
                 handler == LastRegistered(pre[w].registered, event.type) IN
             /\ handler # {}
             /\ delivered = Append(pre[w].delivered,
                                    [handler |-> The(handler), event |-> event,
                                     seq |-> Len(pre[w].events) + 1])

\* C17 witness: two handlers were registered in turn for the same type, and
\* the event dispatched afterwards went to the second one only.
C17_Witness ==
    \E w \in Workers :
        /\ DispatchDone(w)
        /\ Len(registered) = 3
        /\ registered[2].event_type = "TestEvent"
        /\ registered[3].event_type = "TestEvent"
        /\ registered[2].handler_type # registered[3].handler_type
        /\ Len(delivered) = Len(pre[w].delivered) + 1
        /\ delivered[Len(delivered)].handler = registered[3].handler_type

\* The other case of C17: an event of a type without handler was dispatched
\* after an account was registered, and nothing was delivered for it.
C17_WitnessNoHandler ==
    \E w \in Workers :
        /\ DispatchDone(w)
        /\ LastRegistered(pre[w].registered, The(local[w].event).type) = {}
        /\ Len(events) = 2
        /\ Len(delivered) = 1
        /\ delivered = pre[w].delivered
        /\ result[w] = "ok"

C18_WitnessStoreFails ==
    \E w \in Workers :
        /\ RegisterDone(w)
        /\ LastCall(w) = {"activation.save"}
        /\ result[w] = "DatabaseError"
        /\ Len(events) = 2

C19_WitnessOtherHandler ==
    \E w \in Workers :
        /\ RegisterDone(w)
        /\ result[w] = "ok"
        /\ LastRegistered(pre[w].registered, "AccountCreated") # {"AccountCreatedHandler"}
        /\ The(local[w].account).id \notin DOMAIN activations

\* C20: every persisted activation has expires_at = created_at + 60;
\* is_expired() is false at every instant up to and including expires_at and
\* true at every later one; an activation call with the stored code is
\* accepted when is_expired() reads exactly created_at + 60, and ends
\* ActivationCodeExpired when it reads a later time.
C20_SixtySecondWindow ==
    /\ EXPIRATION_SECONDS = 60
    /\ \A id \in DOMAIN activations :
          LET activation == activation_to_domain(activations[id]) IN
          /\ activation.expires_at - activation.created_at = 60
          /\ \A t \in SampleTimes \cup {activation.created_at + 59,
                                         activation.created_at + 60,
                                         activation.created_at + 61} :
                AccountActivation_is_expired(activation, t) <=> t > activation.created_at + 60
    /\ \A w \in Workers :
          ( /\ ActivateDone(w)
            /\ PreAccount(w) # {}
            /\ PreActivation(w) # {}
            /\ cmd[w].code = The(PreActivation(w)).code )
          => LET activation == The(PreActivation(w)) IN
             IF local[w].checked_at <= activation.created_at + 60
             THEN result[w] = "ok" /\ accounts[cmd[w].account_id].is_activated
             ELSE result[w] = "ActivationCodeExpired"

\* C20 witness: the stored code is presented and checked exactly 60 seconds
\* after the activation was created, and the account becomes activated.
C20_Witness ==
    \E w \in Workers :
        /\ ActivateDone(w)
        /\ PreAccount(w) # {}
        /\ PreActivation(w) # {}
        /\ cmd[w].code = The(PreActivation(w)).code
        /\ pre[w].now = The(PreActivation(w)).created_at + 60
        /\ local[w].checked_at = The(PreActivation(w)).created_at + 60
        /\ ~The(PreAccount(w)).is_activated
        /\ result[w] = "ok"
        /\ accounts[cmd[w].account_id].is_activated

\* One second later the same code is refused.
C20_WitnessExpired ==
    \E w \in Workers :
        /\ ActivateDone(w)
        /\ PreActivation(w) # {}
        /\ cmd[w].code = The(PreActivation(w)).code
        /\ local[w].checked_at = The(PreActivation(w)).created_at + 61
        /\ result[w] = "ActivationCodeExpired"

\* C21: handle never looks at is_activated: for an account that is already
\* activated the outcome is decided by the stored activation (possibly a
\* replaced one), the supplied code and the time alone, exactly as for an
\* account that is not activated: ActivationCodeExpired once the code has
\* expired, InvalidActivationCode when the code differs from the stored one,
\* success otherwise.
C21_ActivatedStillValidated ==
    \A w \in Workers :
        (ActivateDone(w) /\ PreAccount(w) # {} /\ PreActivation(w) # {}
            /\ The(PreAccount(w)).is_activated)
        => LET stored == The(PreActivation(w)) IN
           result[w] = IF local[w].checked_at > stored.expires_at
                       THEN "ActivationCodeExpired"
                       ELSE IF cmd[w].code # stored.code
                       THEN "InvalidActivationCode"
                       ELSE "ok"

\* An activated account whose code was replaced is refused the old code.
C21_Witness ==
    \E w \in Workers :
        /\ ActivateDone(w) /\ PreAccount(w) # {} /\ PreActivation(w) # {}
        /\ The(PreAccount(w)).is_activated
        /\ cmd[w].code \in replaced[cmd[w].account_id]
        /\ result[w] = "InvalidActivationCode"

\* An activated account is told that its code has expired.
C21_WitnessExpired ==
    \E w \in Workers :
        /\ ActivateDone(w) /\ PreAccount(w) # {} /\ PreActivation(w) # {}
        /\ The(PreAccount(w)).is_activated
        /\ The(PreActivation(w)).code = cmd[w].code
        /\ result[w] = "ActivationCodeExpired"

\* Two strings that differ at most in the case of their letters.
CasePairs == { {"U", "u"}, {"V", "v"}, {"X", "x"} }
SameIgnoringCase(a, b) ==
    /\ Len(a) = Len(b)
    /\ \A i \in DOMAIN a : a[i] = b[i] \/ {a[i], b[i]} \in CasePairs

\* C22: an Email is identified by its normalized (lower-cased) form: inputs
\* that differ only in letter case give equal Emails; registering a case
\* variant of an email that is already persisted fails with
\* EmailAlreadyExists and creates no second account, so no two persisted
\* accounts have emails that differ only in case.
C22_EmailIdentityIgnoresCase ==
    /\ \A a \in RawEmails, b \in RawEmails :
           SameIgnoringCase(a, b) <=> Email(a) = Email(b)
    /\ \A w \in Workers :
           (RegisterDone(w)
               /\ \E i \in DOMAIN pre[w].accounts :
                      SameIgnoringCase(pre[w].accounts[i].email, cmd[w].raw_email))
           => /\ result[w] = "EmailAlreadyExists"
              /\ accounts = pre[w].accounts
    /\ \A i \in DOMAIN accounts, j \in DOMAIN accounts :
           SameIgnoringCase(accounts[i].email, accounts[j].email) => i = j

\* The upper-case spelling of the one persisted address is refused while a
\* second, different address has been registered.
C22_Witness ==
    \E w \in Workers :
        /\ RegisterDone(w)
        /\ \E i \in DOMAIN pre[w].accounts :
               /\ pre[w].accounts[i].email # cmd[w].raw_email
               /\ SameIgnoringCase(pre[w].accounts[i].email, cmd[w].raw_email)
        /\ result[w] = "EmailAlreadyExists"
        /\ accounts = pre[w].accounts
        /\ Cardinality(DOMAIN accounts) = MaxAccounts

\* C23: ActivationCode construction succeeds if and only if the string has
\* exactly 4 characters, each an ASCII digit '0'..'9' ("0000" included);
\* every other string is rejected; generate() always returns such a code.
C23_FourAsciiDigits ==
    \A w \in Workers :
        /\ (pc[w] = "done" /\ cmd[w].op = "construct")
           => (result[w] = "ok"
               <=> /\ Len(cmd[w].code) = 4
                   /\ \A i \in DOMAIN cmd[w].code : cmd[w].code[i] \in AsciiDigits)
        /\ (pc[w] = "done" /\ cmd[w].op = "generate")
           => /\ result[w] = "ok"
              /\ Len(cmd[w].code) = 4
              /\ \A i \in DOMAIN cmd[w].code : cmd[w].code[i] \in AsciiDigits

\* C24: over any sequence and interleaving of register and activate
\* requests, no step removes an account row or changes its id, email or
\* password; is_activated never goes from true to false; and it goes from
\* false to true only in the step in which ActivateAccountHandler.handle
\* for that id saves the account and returns successfully.
C24_ActivationOnlyForward ==
    [][\A id \in DOMAIN accounts :
          /\ id \in DOMAIN accounts'
          /\ accounts'[id].id = accounts[id].id
          /\ accounts'[id].email = accounts[id].email
          /\ accounts'[id].password_hash = accounts[id].password_hash
          /\ accounts[id].is_activated => accounts'[id].is_activated
          /\ (~accounts[id].is_activated /\ accounts'[id].is_activated)
             => \E w \in Workers :
                   /\ cmd[w].op = "activate" /\ cmd[w].account_id = id
                   /\ pc[w] = "act_save" /\ pc'[w] = "done"
                   /\ result'[w] = "ok"]_vars

\* Two activation requests for one account have interleaved: both loaded
\* the account before either saved it, and both have saved it: the
\* second one overwrote an activated row with an activated row.
C24_Witness ==
    /\ \A w \in MixWorkers :
           /\ ActivateDone(w) /\ result[w] = "ok"
           /\ local[w].loaded # {} /\ ~The(local[w].loaded).is_activated
    /\ \A w \in MixWorkers : cmd[w].account_id = cmd[1].account_id
    /\ accounts[cmd[1].account_id].is_activated

\* An activation and a registration have interleaved: the new row is there
\* and the first account is activated.
C24_WitnessRegister ==
    \E v \in MixWorkers, w \in MixWorkers :
        /\ RegisterDone(v) /\ result[v] = "ok"
        /\ ActivateDone(w) /\ result[w] = "ok"
        /\ cmd[w].account_id = 1
        /\ ~pre[v].accounts[1].is_activated
        /\ Cardinality(DOMAIN pre[w].accounts) = 1
        /\ Cardinality(DOMAIN accounts) = 2
        /\ accounts[cmd[w].account_id].is_activated

\* handle has passed validation for an account that it loaded already
\* activated: account.activate() has been called on an activated account.
ActivateCalledOnActivated(w) ==
    /\ cmd[w].op = "activate"
    /\ pc[w] \in {"act_save", "done"}
    /\ local[w].loaded # {} /\ local[w].activation # {}
    /\ The(local[w].loaded).is_activated
    /\ ValidateActivation(The(local[w].activation), cmd[w].code, local[w].checked_at) = "ok"

HandlerRaised(w) ==
    /\ RegisterDone(w)
    /\ \/ /\ LastCall(w) = {"activation.save"}
          /\ activations = pre[w].activations
       \/ /\ LastCall(w) = {"email.send_email"}
          /\ outbox = pre[w].outbox

C27_ActivatedOnlyByValidCode ==
    [][/\ \A id \in DOMAIN accounts' \ DOMAIN accounts : ~accounts'[id].is_activated
       /\ \A id \in DOMAIN accounts \cap DOMAIN accounts' :
             (~accounts[id].is_activated /\ accounts'[id].is_activated)
             => \E w \in Workers :
                   /\ cmd[w].op = "activate" /\ cmd[w].account_id = id
                   /\ pc[w] = "act_save" /\ pc'[w] = "done"
                   /\ local[w].activation # {}
                   /\ The(local[w].activation).account_id = id
                   /\ cmd[w].code = The(local[w].activation).code
                   /\ local[w].checked_at <= The(local[w].activation).expires_at
                   /\ activation_to_domain(activations[id]) = The(local[w].activation)]_vars

\* An account was activated by a call that checked the code at its last
\* valid instant and saved the account after the code had expired.
C27_Witness ==
    \E w \in Workers :
        /\ ActivateDone(w) /\ result[w] = "ok"
        /\ PreAccount(w) # {} /\ ~The(PreAccount(w)).is_activated
        /\ accounts[cmd[w].account_id].is_activated
        /\ local[w].checked_at = The(PreActivation(w)).expires_at
        /\ now > The(PreActivation(w)).expires_at

C28_WitnessFailure ==
    \E w \in Workers :
        /\ ActivateDone(w) /\ result[w] = "InvalidActivationCode"
        /\ PreActivation(w) # {}
        /\ activations = pre[w].activations

\* Request w is an activation request made after the stored code of its
\* account had expired, the account being not activated.
CalledAfterExpiry(w) ==
    /\ cmd[w].op = "activate"
    /\ PreAccount(w) # {} /\ ~The(PreAccount(w)).is_activated
    /\ PreActivation(w) # {}
    /\ pre[w].now > The(PreActivation(w)).expires_at

C29_WitnessRegisterAgain ==
    \E w \in Workers :
        /\ RegisterDone(w)
        /\ result[w] = "EmailAlreadyExists"
        /\ \E id \in PreByEmail(w) :
              /\ ~accounts[id].is_activated
              /\ id \in DOMAIN activations
              /\ pre[w].now > activations[id].expires_at
              /\ activations[id] = pre[w].activations[id]

\* Accounts that a failed hand-off left behind, as persisted when request w
\* was made: rows under the command's email whose activation was never
\* saved or whose mail was never sent.
LeftBehind(w) ==
    { id \in PreByEmail(w) :
         id \notin DOMAIN pre[w].activations \/ NeverMailed(pre[w].outbox, id) }

C30_WitnessSaveFailed ==
    \E w \in Workers :
        /\ HandlerRaised(w)
        /\ LastCall(w) = {"activation.save"}
        /\ result[w] = "DatabaseError"
        /\ The(local[w].account).id \in DOMAIN accounts
        /\ The(local[w].account).id \notin DOMAIN activations

====
